---------------------------- MODULE Spec2Model ----------------------------
(***************************************************************************)
(* The keyphrase-in-SEO-title research (findKeyphraseInSEOTitle) and the   *)
(* "other" inclusive-language rules (otherAssessments) of wordpress-seo.   *)
(*                                                                         *)
(* A string is a sequence of characters, a character a one-element string *)
(* ("a", " ", "-"); the characters that have no ASCII form are named:      *)
(* "endash" (U+2013), "ldquo" (U+201C), "rdquo" (U+201D).  Character       *)
(* offsets are 0-based as in JavaScript.                                   *)
(***************************************************************************)
EXTENDS Integers, Sequences, FiniteSets, TLC

VARIABLES
    functionWords,  \* the module-level `let functionWords` of the research
    before,         \* what functionWords held when the last call began
    phase,          \* "idle", "prepared" (a request is ready), "done" (the call ended)
    paper,          \* the paper of the request
    researcher,     \* the researcher of the request
    threw,          \* the last call raised an exception instead of returning
    result,         \* the object the last call returned
    log,            \* the collaborator calls of the last call, in order
    words,          \* inclusive language: the tokens of the text
    assessed,       \* inclusive language: the rules have been evaluated
    matches         \* inclusive language: rule identifier -> matches

vars == <<functionWords, before, phase, paper, researcher, threw, result, log, words, assessed, matches>>

titleVars == <<functionWords, before, phase, paper, researcher, threw, result, log>>

inclusiveVars == <<words, assessed, matches>>

---------------------------------------------------------------------------
(* Bounds of the model *)

\* Titles are all strings of at most MaxTitleLen characters over TitleChars.
MaxTitleLen == 3

\* Texts are all token sequences of at most MaxWords tokens over Vocabulary.
MaxWords == 4

---------------------------------------------------------------------------
(* Strings *)

UpperCaseLetters == <<"A", "B", "C", "D", "E", "F", "G", "H", "I", "J", "K", "L", "M", "N", "O", "P", "Q", "R", "S", "T", "U", "V", "W", "X", "Y", "Z">>

LowerCaseLetters == <<"a", "b", "c", "d", "e", "f", "g", "h", "i", "j", "k", "l", "m", "n", "o", "p", "q", "r", "s", "t", "u", "v", "w", "x", "y", "z">>

\* The lower-case letter of each upper-case letter.
LowerCaseOf ==
    [c \in {UpperCaseLetters[i] : i \in DOMAIN UpperCaseLetters} |->
        LowerCaseLetters[CHOOSE i \in DOMAIN UpperCaseLetters : UpperCaseLetters[i] = c]]

lowerChar(c) == IF c \in DOMAIN LowerCaseOf THEN LowerCaseOf[c] ELSE c

\* String.prototype.toLocaleLowerCase
toLocaleLowerCase(str) == [i \in DOMAIN str |-> lowerChar(str[i])]

WhiteSpace == {" "}

\* String.prototype.trim
RECURSIVE trim(_)
trim(str) ==
    IF str = <<>> THEN str
    ELSE IF Head(str) \in WhiteSpace THEN trim(Tail(str))
    ELSE IF str[Len(str)] \in WhiteSpace THEN trim(SubSeq(str, 1, Len(str) - 1))
    ELSE str

\* String.prototype.substr( 0, length )
substr0(str, length) == SubSeq(str, 1, IF length < Len(str) THEN length ELSE Len(str))

\* lodash includes( collection, value ) on an array
includes(collection, value) == \E i \in DOMAIN collection : collection[i] = value

\* The characters lodash's escapeRegExp escapes: ^ $ \ . * + ? ( ) [ ] { } |
reRegExpChar == {"^", "$", "\\", ".", "*", "+", "?", "(", ")", "[", "]", "{", "}", "|"}

\* lodash escapeRegExp: every special character gets a backslash before it.
RECURSIVE escapeRegExp(_)
escapeRegExp(str) ==
    IF str = <<>> THEN <<>>
    ELSE (IF Head(str) \in reRegExpChar THEN <<"\\", Head(str)>> ELSE <<Head(str)>>)
         \o escapeRegExp(Tail(str))

---------------------------------------------------------------------------
(* Collaborators of the research whose code is outside the sources at hand *)

\* config/wordBoundariesWithoutPunctuation: whitespace, hyphen and en-dash.
WORD_BOUNDARY_WITH_HYPHEN == WhiteSpace \cup {"-", "endash"}

RECURSIVE splitFrom(_, _, _, _)
splitFrom(str, i, cur, acc) ==
    IF i > Len(str)
    THEN (IF cur = <<>> THEN acc ELSE Append(acc, cur))
    ELSE IF str[i] \in WORD_BOUNDARY_WITH_HYPHEN
    THEN splitFrom(str, i + 1, <<>>, IF cur = <<>> THEN acc ELSE Append(acc, cur))
    ELSE splitFrom(str, i + 1, Append(cur, str[i]), acc)

\* getWords( text, WORD_BOUNDARY_WITH_HYPHEN ): the tokens of text between
\* boundary characters, in order; an empty text has no tokens.
getWords(str) == splitFrom(str, 1, <<>>, <<>>)

\* The quotation marks that delimit an exact-match request.
OpeningQuotes == {"\"", "ldquo"}

ClosingQuote(q) == IF q = "ldquo" THEN "rdquo" ELSE q

\* processExactMatchRequest( keyphrase ): a keyphrase wrapped in a matched
\* pair of quotation marks is unwrapped and flagged.
processExactMatchRequest(keyphrase) ==
    IF /\ Len(keyphrase) >= 2
       /\ keyphrase[1] \in OpeningQuotes
       /\ keyphrase[Len(keyphrase)] = ClosingQuote(keyphrase[1])
    THEN [exactMatchRequested |-> TRUE, keyphrase |-> SubSeq(keyphrase, 2, Len(keyphrase) - 1)]
    ELSE [exactMatchRequested |-> FALSE, keyphrase |-> keyphrase]

\* Does phrase occur in haystack at 0-based offset i?
occursAt(haystack, phrase, i, caseSensitive) ==
    /\ phrase # <<>>
    /\ i + Len(phrase) <= Len(haystack)
    /\ LET window == SubSeq(haystack, i + 1, i + Len(phrase))
       IN IF caseSensitive THEN window = phrase
          ELSE toLocaleLowerCase(window) = toLocaleLowerCase(phrase)

\* The number of non-overlapping occurrences of phrase from offset i on.
RECURSIVE countFrom(_, _, _, _)
countFrom(haystack, phrase, i, caseSensitive) ==
    IF i + Len(phrase) > Len(haystack) \/ phrase = <<>> THEN 0
    ELSE IF occursAt(haystack, phrase, i, caseSensitive)
    THEN 1 + countFrom(haystack, phrase, i + Len(phrase), caseSensitive)
    ELSE countFrom(haystack, phrase, i + 1, caseSensitive)

\* wordMatch( text, wordToMatch, locale, false ): the phrase is searched for
\* literally; count is the number of occurrences and position the offset of
\* the first one, -1 without one.  The characters of the model have no
\* diacritics, so the locale does not change the outcome.
wordMatch(text, wordToMatch, locale, caseSensitive) ==
    LET offsets == {i \in 0 .. Len(text) : occursAt(text, wordToMatch, i, caseSensitive)}
    IN [count    |-> countFrom(text, wordToMatch, 0, caseSensitive),
        position |-> IF offsets = {} THEN -1
                     ELSE CHOOSE i \in offsets : \A j \in offsets : i <= j]

\* Math.round( found / total * 100 ), 0 when there are no words to find.
percentOf(found, total) ==
    IF total = 0 THEN 0 ELSE (200 * found + total) \div (2 * total)

\* findWordFormsInString: the share of the words of which some form occurs.
findWordFormsInString(wordForms, text, locale) ==
    LET found == {i \in DOMAIN wordForms :
                     \E f \in DOMAIN wordForms[i] :
                         wordMatch(text, wordForms[i][f], locale, FALSE).count > 0}
    IN [countWordMatches   |-> Cardinality(found),
        percentWordMatches |-> percentOf(Cardinality(found), Len(wordForms))]

\* findTopicFormsInString( topicForms, text, useSynonyms, locale, false ):
\* the coverage of the keyphrase forms; with useSynonyms, the best coverage
\* among the keyphrase and its synonyms.
findTopicFormsInString(topicForms, text, useSynonyms, locale) ==
    LET key == findWordFormsInString(topicForms.keyphraseForms, text, locale)
        syn == [i \in DOMAIN topicForms.synonymsForms |->
                   findWordFormsInString(topicForms.synonymsForms[i], text, locale)]
        best == CHOOSE i \in DOMAIN syn :
                   \A j \in DOMAIN syn : syn[i].percentWordMatches >= syn[j].percentWordMatches
    IN IF ~useSynonyms \/ key.percentWordMatches = 100 \/ syn = <<>> THEN key
       ELSE IF syn[best].percentWordMatches > key.percentWordMatches THEN syn[best]
       ELSE key

\* researcher.getConfig( "functionWords" )
getConfig(r) == r.functionWords

\* researcher.getResearch( "morphology" )
getResearch(r) == r.morphology

---------------------------------------------------------------------------
(* findKeyphraseInSEOTitle.js *)

\* A function-word configuration: a list of words, or undefined (no list).
Undefined == [defined |-> FALSE, list |-> <<>>]

List(ws) == [defined |-> TRUE, list |-> ws]

\* A call of a helper either returns a value or raises.
Returns(v) == [threw |-> FALSE, value |-> v]

Raises == [threw |-> TRUE, value |-> -1]

\* const stripFunctionWordsFromStart = function( str ), reading the
\* module-level functionWords (fw): does str consist of function words only?
stripFunctionWordsFromStart(fw, str) ==
    LET lowered == toLocaleLowerCase(str)
        titleWords == getWords(toLocaleLowerCase(lowered))
        isKept(word) == ~ includes(fw.list, toLocaleLowerCase(trim(word)))
    IN SelectSeq(titleWords, isKept) = <<>>

\* A plausible slip: the check for an empty function-word list is left out.
adjustPositionNoEmptyCheck(fw, title, position) ==
    IF position = 0 THEN Returns(position)
    ELSE IF ~fw.defined THEN Raises
    ELSE IF stripFunctionWordsFromStart(fw, substr0(title, position)) THEN Returns(0)
    ELSE Returns(position)

\* const adjustPosition = function( title, position ), reading the
\* module-level functionWords (fw).  functionWords.length raises a TypeError
\* when functionWords is undefined.
adjustPosition(fw, title, position) ==
    IF position = 0 THEN Returns(position)
    ELSE IF ~fw.defined THEN Raises
    ELSE IF Len(fw.list) = 0 THEN Returns(position)
    ELSE IF stripFunctionWordsFromStart(fw, substr0(title, position)) THEN Returns(0)
    ELSE Returns(position)

\* const result = { exactMatchFound: false, allWordsFound: false, position: -1, exactMatchKeyphrase: false }
initialResult == [exactMatchFound |-> FALSE, allWordsFound |-> FALSE, position |-> -1, exactMatchKeyphrase |-> FALSE]

\* if ( keywordMatched.count > 0 ) { ... return result; }
exactMatchBranch(fw, title, keywordMatched, res) ==
    LET adjusted == adjustPosition(fw, title, keywordMatched.position)
    IN [threw  |-> adjusted.threw,
        result |-> [res EXCEPT !.exactMatchFound = TRUE, !.allWordsFound = TRUE,
                               !.position = adjusted.value],
        log    |-> <<"adjustPosition">>]

\* ! keywordMatched: wordMatch returns an object, and an object is truthy.
notKeywordMatched(keywordMatched) == FALSE

\* keywordMatchedBeforeSanitizing.count > 0: keywordMatchedBeforeSanitizing
\* is the string keyword, whose count is undefined, and undefined > 0 is false.
countOfStringIsPositive(keywordMatchedBeforeSanitizing) == FALSE

\* if ( ! keywordMatched ) { ... return result; }
preSanitizedBranch(fw, title, keyword, res) ==
    LET keywordMatchedBeforeSanitizing == keyword
    IN IF countOfStringIsPositive(keywordMatchedBeforeSanitizing)
       THEN [threw |-> FALSE, log |-> <<>>,
             result |-> [res EXCEPT !.exactMatchFound = TRUE, !.allWordsFound = TRUE]]
       ELSE [threw |-> FALSE, log |-> <<>>, result |-> res]

\* A plausible slip: the synonyms are used as well.
useSynonymsTrue == TRUE

\* const useSynonyms = false;
useSynonyms == FALSE

\* A plausible slip: a full coverage is given position 0.
coverageCheckWithPosition(topicForms, title, locale, res) ==
    LET separateWordsMatched == findTopicFormsInString(topicForms, title, useSynonyms, locale)
    IN [threw  |-> FALSE,
        result |-> IF separateWordsMatched.percentWordMatches = 100
                   THEN [res EXCEPT !.allWordsFound = TRUE, !.position = 0]
                   ELSE res,
        log    |-> <<"findTopicFormsInString">>]

\* Check 2: are all content words from the keyphrase in the SEO title?
coverageCheck(topicForms, title, locale, res) ==
    LET separateWordsMatched == findTopicFormsInString(topicForms, title, useSynonyms, locale)
    IN [threw  |-> FALSE,
        result |-> IF separateWordsMatched.percentWordMatches = 100
                   THEN [res EXCEPT !.allWordsFound = TRUE]
                   ELSE res,
        log    |-> <<"findTopicFormsInString">>]

\* A plausible slip: the morphology research is fetched before the search.
assessEager(fw, p, r) ==
    LET escaped == escapeRegExp(p.keyword)
        title == p.title
        locale == p.locale
        exactMatchRequest == processExactMatchRequest(escaped)
        keyword == IF exactMatchRequest.exactMatchRequested THEN exactMatchRequest.keyphrase ELSE escaped
        res == [initialResult EXCEPT !.exactMatchKeyphrase = exactMatchRequest.exactMatchRequested]
        topicForms == getResearch(r)
        keywordMatched == wordMatch(title, keyword, locale, FALSE)
        branch == IF keywordMatched.count > 0 THEN exactMatchBranch(fw, title, keywordMatched, res)
                  ELSE IF notKeywordMatched(keywordMatched) THEN preSanitizedBranch(fw, title, keyword, res)
                  ELSE coverageCheck(topicForms, title, locale, res)
    IN [threw  |-> branch.threw,
        result |-> branch.result,
        log    |-> <<"getKeyword", "getTitle", "getLocale", "processExactMatchRequest", "getResearch", "wordMatch">>
                   \o branch.log]

\* The statements of findKeyphraseInSEOTitle after the assignment of
\* functionWords, which they read as fw.
assess(fw, p, r) ==
    LET escaped == escapeRegExp(p.keyword)
        title == p.title
        locale == p.locale
        exactMatchRequest == processExactMatchRequest(escaped)
        keyword == IF exactMatchRequest.exactMatchRequested THEN exactMatchRequest.keyphrase ELSE escaped
        res == [initialResult EXCEPT !.exactMatchKeyphrase = exactMatchRequest.exactMatchRequested]
        keywordMatched == wordMatch(title, keyword, locale, FALSE)
        branch == IF keywordMatched.count > 0 THEN exactMatchBranch(fw, title, keywordMatched, res)
                  ELSE IF notKeywordMatched(keywordMatched) THEN preSanitizedBranch(fw, title, keyword, res)
                  ELSE LET inner == coverageCheck(getResearch(r), title, locale, res)
                       IN [inner EXCEPT !.log = <<"getResearch">> \o @]
    IN [threw  |-> branch.threw,
        result |-> branch.result,
        log    |-> <<"getKeyword", "getTitle", "getLocale", "processExactMatchRequest", "wordMatch">>
                   \o branch.log]

\* A plausible slip: the function words of the previous call are still in
\* use while this call is assessed, and are replaced only afterwards.
findKeyphraseInSEOTitleStale(held, p, r) ==
    LET run == assess(held, p, r)
    IN [functionWords |-> getConfig(r), threw |-> run.threw, result |-> run.result,
        log |-> <<"getConfig">> \o run.log]

\* const findKeyphraseInSEOTitle = function( paper, researcher ), called when
\* the module-level functionWords holds `held`: the value functionWords
\* holds afterwards, and what the call returned or that it raised.
findKeyphraseInSEOTitle(held, p, r) ==
    LET assigned == getConfig(r)
        run == assess(assigned, p, r)
    IN [functionWords |-> assigned, threw |-> run.threw, result |-> run.result,
        log |-> <<"getConfig">> \o run.log]

---------------------------------------------------------------------------
(* The papers and researchers the research is called with *)

SeqsUpTo(S, n) == UNION {[1 .. k -> S] : k \in 0 .. n}

TitleChars == {"a", "b", "A", " ", "-", "."}

BestKitchenSinkReviews == <<"B", "e", "s", "t", " ", "K", "i", "t", "c", "h", "e", "n", " ", "S", "i", "n", "k", " ", "R", "e", "v", "i", "e", "w", "s">>

TheKitchenSinkGuide == <<"T", "h", "e", " ", "K", "i", "t", "c", "h", "e", "n", " ", "S", "i", "n", "k", " ", "G", "u", "i", "d", "e">>

SinksForKitchens == <<"S", "i", "n", "k", "s", " ", "f", "o", "r", " ", "K", "i", "t", "c", "h", "e", "n", "s">>

KitchenSink == <<"k", "i", "t", "c", "h", "e", "n", " ", "s", "i", "n", "k">>

Titles == SeqsUpTo(TitleChars, MaxTitleLen)
          \cup {BestKitchenSinkReviews, TheKitchenSinkGuide, SinksForKitchens}

\* An assessed paper has a keyphrase: plain, of two words, with a character
\* that escapeRegExp escapes, and wrapped in quotation marks.
Keyphrases == {<<"b">>, <<"a", " ", "b">>, <<".", "b">>, <<"\"", "b", "\"">>,
               <<"ldquo", "b", "rdquo">>, KitchenSink}

\* The characters of the model have no diacritics and no locale-specific
\* case, so one locale stands for all.
Locales == {"en_US"}

FunctionWordConfigs ==
    {Undefined, List(<<>>), List(<< <<"t", "h", "e">>, <<"a">> >>)}

A == <<"a">>

B == <<"b">>

BA == <<"b", "a">>

BB == <<"b", "b">>

Kitchen == <<"k", "i", "t", "c", "h", "e", "n">>

Kitchens == <<"k", "i", "t", "c", "h", "e", "n", "s">>

Sink == <<"s", "i", "n", "k">>

Sinks == <<"s", "i", "n", "k", "s">>

\* Morphology results: the forms of each content word of the keyphrase, and
\* of each content word of each synonym.
NoForms == [keyphraseForms |-> <<>>, synonymsForms |-> <<>>]

FormsOfAB == [keyphraseForms |-> << <<A>>, <<B, BA>> >>, synonymsForms |-> <<>>]

FormsWithSynonym == [keyphraseForms |-> << <<BB>> >>, synonymsForms |-> << << <<A>> >> >>]

FormsOfKitchenSink ==
    [keyphraseForms |-> << <<Kitchen, Kitchens>>, <<Sink, Sinks>> >>,
     synonymsForms  |-> <<>>]

Morphologies == {NoForms, FormsOfAB, FormsWithSynonym, FormsOfKitchenSink}

Researchers == [functionWords : FunctionWordConfigs, morphology : Morphologies]

NoPaper == [title |-> <<>>, keyword |-> <<>>, locale |-> ""]

NoResearcher == [functionWords |-> List(<<>>), morphology |-> NoForms]

---------------------------------------------------------------------------
(* The state machine of the research *)

\* let functionWords = [];
InitTitle ==
    /\ functionWords = List(<<>>)
    /\ before = List(<<>>)
    /\ phase = "idle"
    /\ paper = NoPaper
    /\ researcher = NoResearcher
    /\ threw = FALSE
    /\ result = initialResult
    /\ log = <<>>

\* The caller prepares an analysis request: the researcher of the site's
\* language, and the keyphrase and locale of the paper.
Prepare(r, keyword, locale) ==
    /\ phase = "idle"
    /\ phase' = "prepared"
    /\ researcher' = r
    /\ paper' = [title |-> <<>>, keyword |-> keyword, locale |-> locale]
    /\ UNCHANGED <<functionWords, before, threw, result, log>>
    /\ UNCHANGED inclusiveVars

\* One call findKeyphraseInSEOTitle( paper, researcher ) for the prepared
\* request and an SEO title, from its first statement to its return or to
\* the exception it raises.
Analyse(title) ==
    /\ phase = "prepared"
    /\ \E p \in {[paper EXCEPT !.title = title]} :
       \E run \in {findKeyphraseInSEOTitle(functionWords, p, researcher)} :
          /\ functionWords' = run.functionWords
          /\ threw' = run.threw
          /\ result' = IF run.threw THEN initialResult ELSE run.result
          /\ log' = run.log
          /\ paper' = p
    /\ before' = functionWords
    /\ phase' = "done"
    /\ UNCHANGED researcher
    /\ UNCHANGED inclusiveVars

\* The caller drops the paper, the researcher and the result of a finished
\* analysis; what the module holds stays.
Discard ==
    /\ phase = "done"
    /\ phase' = "idle"
    /\ paper' = NoPaper
    /\ researcher' = NoResearcher
    /\ threw' = FALSE
    /\ result' = initialResult
    /\ log' = <<>>
    /\ before' = functionWords
    /\ UNCHANGED functionWords
    /\ UNCHANGED inclusiveVars

---------------------------------------------------------------------------
(* inclusiveLanguage/configuration/otherAssessments.js *)

W_a == <<"a">>

W_mentally == <<"m", "e", "n", "t", "a", "l", "l", "y">>

W_Mentally == <<"M", "e", "n", "t", "a", "l", "l", "y">>

W_behaviorally == <<"b", "e", "h", "a", "v", "i", "o", "r", "a", "l", "l", "y">>

W_behaviourally == <<"b", "e", "h", "a", "v", "i", "o", "u", "r", "a", "l", "l", "y">>

W_normal == <<"n", "o", "r", "m", "a", "l">>

W_Normal == <<"N", "o", "r", "m", "a", "l">>

W_person == <<"p", "e", "r", "s", "o", "n">>

W_people == <<"p", "e", "o", "p", "l", "e">>

\* A phrase of two words, as the string "first second".
TwoWords(first, second) == first \o <<" ">> \o second

RECURSIVE splitOnSpace(_, _, _, _)
splitOnSpace(str, i, cur, acc) ==
    IF i > Len(str) THEN Append(acc, cur)
    ELSE IF str[i] = " " THEN splitOnSpace(str, i + 1, <<>>, Append(acc, cur))
    ELSE splitOnSpace(str, i + 1, Append(cur, str[i]), acc)

\* phrase.split( " " )
split(phrase) == splitOnSpace(phrase, 1, <<>>, <<>>)

\* Do the consecutive words start at the 0-based index i of words?
includesWordsAtPosition(consecutiveWords, i, ws) ==
    /\ i + Len(consecutiveWords) <= Len(ws)
    /\ SubSeq(ws, i + 1, i + Len(consecutiveWords)) = consecutiveWords

RECURSIVE includesConsecutiveWordsFrom(_, _, _)
includesConsecutiveWordsFrom(ws, consecutiveWords, i) ==
    IF i >= Len(ws) THEN <<>>
    ELSE (IF includesWordsAtPosition(consecutiveWords, i, ws) THEN <<i>> ELSE <<>>)
         \o includesConsecutiveWordsFrom(ws, consecutiveWords, i + 1)

\* includesConsecutiveWords( words, consecutiveWords ): the 0-based indices
\* at which the consecutive words start in words, in ascending order.
includesConsecutiveWords(ws, consecutiveWords) ==
    includesConsecutiveWordsFrom(ws, consecutiveWords, 0)

\* isNotPrecededByException( words, exceptions )( index ): none of the
\* exceptions ends right before index.
isNotPrecededByException(ws, exceptions, index) ==
    ~ \E e \in DOMAIN exceptions :
        LET exception == split(exceptions[e])
            startIndex == index - Len(exception)
        IN /\ startIndex >= 0
           /\ SubSeq(ws, startIndex + 1, index) = exception

\* A plausible slip: the occurrences are not filtered.
normalPersonRuleUnfiltered(ws, nonInclusivePhrase) ==
    includesConsecutiveWords(ws, nonInclusivePhrase)

\* normalPerson: rule: ( words, nonInclusivePhrase ) => ...
normalPersonRule(ws, nonInclusivePhrase) ==
    LET notPreceded(index) ==
            isNotPrecededByException(ws, <<W_mentally, W_behaviorally, W_behaviourally>>, index)
    IN SelectSeq(includesConsecutiveWords(ws, nonInclusivePhrase), notPreceded)

\* normalPeople: rule: ( words, nonInclusivePhrase ) => ...
normalPeopleRule(ws, nonInclusivePhrase) ==
    LET notPreceded(index) ==
            isNotPrecededByException(ws, <<W_mentally, W_behaviorally, W_behaviourally>>, index)
    IN SelectSeq(includesConsecutiveWords(ws, nonInclusivePhrase), notPreceded)

normalPerson ==
    [identifier |-> "normalPerson", nonInclusivePhrases |-> <<TwoWords(W_normal, W_person)>>,
     caseSensitive |-> FALSE, hasRule |-> TRUE]

normalPeople ==
    [identifier |-> "normalPeople",
     nonInclusivePhrases |-> <<TwoWords(W_normal, W_people), TwoWords(W_Normal, W_people)>>,
     caseSensitive |-> TRUE, hasRule |-> TRUE]

mentallyNormal ==
    [identifier |-> "mentallyNormal", nonInclusivePhrases |-> <<TwoWords(W_mentally, W_normal)>>,
     caseSensitive |-> FALSE, hasRule |-> FALSE]

otherAssessments == <<normalPerson, normalPeople, mentallyNormal>>

\* assessment.rule( words, phrase ); an assessment without a rule of its own
\* uses includesConsecutiveWords.
rule(assessment, ws, nonInclusivePhrase) ==
    IF assessment.identifier = "normalPerson" THEN normalPersonRule(ws, nonInclusivePhrase)
    ELSE IF assessment.identifier = "normalPeople" THEN normalPeopleRule(ws, nonInclusivePhrase)
    ELSE includesConsecutiveWords(ws, nonInclusivePhrase)

\* The tokens an assessment is given: lower-cased unless it is case sensitive.
tokensFor(assessment, ws) ==
    IF assessment.caseSensitive THEN ws ELSE [i \in DOMAIN ws |-> toLocaleLowerCase(ws[i])]

\* The matches of an assessment in a text: for each of its phrases, in
\* source order, the start indices its rule keeps.
RECURSIVE matchesFrom(_, _, _)
matchesFrom(assessment, ws, k) ==
    IF k > Len(assessment.nonInclusivePhrases) THEN <<>>
    ELSE LET kept == rule(assessment, tokensFor(assessment, ws), split(assessment.nonInclusivePhrases[k]))
         IN [i \in DOMAIN kept |-> [phrase |-> k, startToken |-> kept[i]]]
            \o matchesFrom(assessment, ws, k + 1)

evaluate(ws) ==
    [id \in {otherAssessments[a].identifier : a \in DOMAIN otherAssessments} |->
        LET assessment == otherAssessments[CHOOSE a \in DOMAIN otherAssessments :
                                              otherAssessments[a].identifier = id]
        IN matchesFrom(assessment, ws, 1)]

Vocabulary == {W_a, W_mentally, W_Mentally, W_behaviorally, W_normal, W_Normal, W_person, W_people}

Texts == SeqsUpTo(Vocabulary, MaxWords)

NotAssessed == [id \in {otherAssessments[a].identifier : a \in DOMAIN otherAssessments} |-> <<>>]

InitInclusive ==
    /\ words \in Texts
    /\ assessed = FALSE
    /\ matches = NotAssessed

\* The rules are evaluated on the tokens of the text.
Evaluate ==
    /\ ~assessed
    /\ assessed' = TRUE
    /\ matches' = evaluate(words)
    /\ UNCHANGED words
    /\ UNCHANGED titleVars

---------------------------------------------------------------------------
(* Specifications *)

Init ==
    /\ InitTitle
    /\ words = <<>>
    /\ assessed = FALSE
    /\ matches = NotAssessed

Next ==
    \/ \E r \in Researchers, keyword \in Keyphrases, locale \in Locales : Prepare(r, keyword, locale)
    \/ \E title \in Titles : Analyse(title)
    \/ Discard

\* Any sequence of analyses of papers.
Spec == Init /\ [][Next]_vars

InitRules == InitTitle /\ InitInclusive

NextRules == Evaluate

\* The inclusive-language rules, evaluated on any text.
SpecRules == InitRules /\ [][NextRules]_vars

---------------------------------------------------------------------------
(* What the last call was given, for the properties below *)

Called == phase = "done"

Returned == Called /\ ~threw

\* The function-word configuration of the researcher of the call.
config == getConfig(researcher)

\* The keyphrase as typed, without the quotation marks of an exact-match request.
rawKeyphrase == processExactMatchRequest(paper.keyword).keyphrase

\* The keyphrase the call searches the title for: escaped, then unwrapped.
searchedKeyphrase == processExactMatchRequest(escapeRegExp(paper.keyword)).keyphrase

\* The exact-phrase search of the title.
keywordSearch == wordMatch(paper.title, searchedKeyphrase, paper.locale, FALSE)

\* The search of the title for the keyphrase before escaping.
rawSearch == wordMatch(paper.title, rawKeyphrase, paper.locale, FALSE)

\* The tokens of the title before the 0-based offset p.
tokensBefore(p) == getWords(SubSeq(paper.title, 1, p))

\* Every token before offset p is one of the words of the list ws.
onlyFunctionWordsBefore(p, ws) ==
    \A i \in DOMAIN tokensBefore(p) :
        \E j \in DOMAIN ws : ws[j] = toLocaleLowerCase(tokensBefore(p)[i])

\* Position normalization as specified: cfg absent or empty, or raw 0, keeps
\* the raw position; else 0 when only function words precede it.
normalized(raw, cfg) ==
    IF raw = 0 \/ ~cfg.defined \/ cfg.list = <<>> THEN raw
    ELSE IF onlyFunctionWordsBefore(raw, cfg.list) THEN 0
    ELSE raw

\* The 1-based place of the first entry e of the log, 0 if there is none.
placeInLog(e) ==
    IF \E i \in DOMAIN log : log[i] = e
    THEN CHOOSE i \in DOMAIN log : log[i] = e /\ \A j \in 1 .. i - 1 : log[j] # e
    ELSE 0

---------------------------------------------------------------------------
(* Properties of findKeyphraseInSEOTitle *)

\* C1: in every returned result, position >= 0 implies exactMatchFound, and
\* position is -1 whenever the exact-phrase search reported no occurrence,
\* whatever allWordsFound is.
C1_PositionInvariant ==
    Returned =>
        /\ (result.position >= 0 => result.exactMatchFound)
        /\ (keywordSearch.count = 0 => result.position = -1)

\* A call without an exact occurrence in which all words were found.
C1_Witness ==
    /\ Returned
    /\ keywordSearch.count = 0
    /\ result.allWordsFound
    /\ result.position = -1

\* C2: when the exact-phrase search reports an occurrence, the call returns
\* exactMatchFound and allWordsFound true and the normalized offset of the
\* first occurrence; "Best Kitchen Sink Reviews" with "kitchen sink" gives 5.
C2_ExactMatchResult ==
    (Called /\ keywordSearch.count > 0) =>
        /\ ~threw
        /\ result.exactMatchFound
        /\ result.allWordsFound
        /\ result.position = normalized(keywordSearch.position, config)

\* C3: for a function-word list, the position of an exact match is the raw
\* position when that is 0 or the list is empty; otherwise it is 0 exactly
\* when every token before the raw position is a function word, and the raw
\* position in all other cases.
C3_AdjustPosition ==
    (Returned /\ keywordSearch.count > 0 /\ config.defined) =>
        LET raw == keywordSearch.position
        IN /\ (raw = 0 \/ config.list = <<>>) => result.position = raw
           /\ (raw # 0 /\ config.list # <<>>) =>
                 /\ (result.position = 0 <=> onlyFunctionWordsBefore(raw, config.list))
                 /\ (~onlyFunctionWordsBefore(raw, config.list) => result.position = raw)
           /\ result.position \in {0, raw}

\* An exact match after function words only, collapsed to position 0, with
\* a hyphen among the boundaries.
C3_Witness ==
    /\ Returned
    /\ keywordSearch.position = 2
    /\ paper.title = <<"A", "-", "b">>
    /\ config.list # <<>>
    /\ result.position = 0

\* C4: when the keyphrase does not occur in the title, the result has
\* exactMatchFound false and position -1, and allWordsFound is true exactly
\* when the coverage of the keyphrase's own forms is 100 percent.
C4_CoverageOnly ==
    (Called /\ keywordSearch.count = 0 /\ rawSearch.count = 0) =>
        /\ ~threw
        /\ ~result.exactMatchFound
        /\ result.position = -1
        /\ result.allWordsFound <=>
               (findWordFormsInString(researcher.morphology.keyphraseForms, paper.title, paper.locale)
                    .percentWordMatches = 100)

\* "Sinks for Kitchens" with the forms of "kitchen sink": all words found.
C4_Witness ==
    /\ Returned
    /\ paper.title = SinksForKitchens
    /\ paper.keyword = KitchenSink
    /\ researcher.morphology = FormsOfKitchenSink
    /\ result = [exactMatchFound |-> FALSE, allWordsFound |-> TRUE, position |-> -1,
                 exactMatchKeyphrase |-> FALSE]

\* C5: with an empty or absent function-word configuration the call returns
\* a result, and an exact match keeps its raw position.
C5_AbsentConfigurationHandled ==
    (Called /\ (~config.defined \/ config.list = <<>>)) =>
        /\ ~threw
        /\ (keywordSearch.count > 0 => result.position = keywordSearch.position)

\* C6: whatever calls came earlier, a call gives what the same call gives
\* as the first call of the module: calls with the same paper and researcher
\* have the same outcome.
C6_NoStateDrift ==
    Called =>
        LET first == findKeyphraseInSEOTitle(List(<<>>), paper, researcher)
        IN /\ threw = first.threw
           /\ (~threw => result = first.result)

\* A call that began with the function words of another configuration, which
\* would have collapsed the position it returned.
C6_Witness ==
    /\ Returned
    /\ before # config
    /\ keywordSearch.count > 0
    /\ result.position > 0
    /\ normalized(keywordSearch.position, before) = 0

\* C7: a call leaves the module-level function-word list as it was.
C7_NoSharedStateWritten ==
    Called => functionWords = before

\* C8: when the search for the escaped keyphrase finds nothing and the
\* keyphrase before escaping occurs in the title, the result is that of an
\* exact match.
C8_PreSanitizedFallback ==
    (Called /\ keywordSearch.count = 0 /\ rawSearch.count > 0) =>
        /\ ~threw
        /\ result.exactMatchFound
        /\ result.allWordsFound
        /\ result.position = normalized(rawSearch.position, config)

\* C9: the morphology research is consulted only after the exact-match
\* search, and only when that search reported no occurrence.
C9_MorphologyOnlyAfterMiss ==
    Called =>
        /\ placeInLog("wordMatch") > 0
        /\ (placeInLog("getResearch") > 0 =>
               /\ keywordSearch.count = 0
               /\ placeInLog("wordMatch") < placeInLog("getResearch"))
        /\ (keywordSearch.count > 0 => placeInLog("getResearch") = 0)

\* A call that found the exact match and returned without the morphology.
C9_Witness ==
    /\ Returned
    /\ keywordSearch.count > 0
    /\ result.exactMatchFound
    /\ placeInLog("getResearch") = 0

---------------------------------------------------------------------------
(* Properties of the inclusive-language rules *)

\* The rule with identifier id kept a match of its k-th phrase at token i.
kept(id, k, i) ==
    \E m \in DOMAIN matches[id] : matches[id][m] = [phrase |-> k, startToken |-> i]

\* The phrase occurs in the tokens from the 0-based token i on.
occursAtToken(tokens, phrase, i) ==
    /\ i + Len(phrase) <= Len(tokens)
    /\ \A j \in DOMAIN phrase : tokens[i + j] = phrase[j]

\* The token right before the 0-based token i is one of the exceptions.
afterException(tokens, i) ==
    i > 0 /\ tokens[i] \in {W_mentally, W_behaviorally, W_behaviourally}

\* An occurrence is a match of the assessment exactly when no exception
\* precedes it.
keepsAllButExceptions(assessment) ==
    LET tokens == tokensFor(assessment, words)
    IN \A k \in DOMAIN assessment.nonInclusivePhrases :
          \A i \in 0 .. Len(words) :
              kept(assessment.identifier, k, i) <=>
                  /\ occursAtToken(tokens, split(assessment.nonInclusivePhrases[k]), i)
                  /\ ~afterException(tokens, i)

AMentallyNormalPerson == <<W_a, W_mentally, W_normal, W_person>>

\* C10: normalPerson and normalPeople keep an occurrence of their phrase
\* exactly when the token right before it is none of "mentally",
\* "behaviorally", "behaviourally"; "a mentally normal person" has no match
\* of normalPerson and one match of mentallyNormal.
C10_ExceptionFiltering ==
    assessed =>
        /\ keepsAllButExceptions(normalPerson)
        /\ keepsAllButExceptions(normalPeople)
        /\ (words = AMentallyNormalPerson =>
               /\ matches["normalPerson"] = <<>>
               /\ Len(matches["mentallyNormal"]) = 1)

\* "a mentally normal person" has been assessed.
C10_Witness ==
    /\ assessed
    /\ words = AMentallyNormalPerson
    /\ matches["normalPerson"] = <<>>
    /\ matches["mentallyNormal"] = <<[phrase |-> 1, startToken |-> 1]>>

=============================================================================
